---- MODULE Spec2Model ----
(***************************************************************************)
(* OpenvinoEstimator (pyzoo/zoo/orca/learn/openvino/estimator.py).         *)
(*                                                                         *)
(* State: the estimator's fields (path, batch_size, model) and the outcome *)
(* of the call in progress.  One action per public method; predict has one *)
(* action per branch of its dispatch on the type of `data`.                *)
(*                                                                         *)
(* An array is a sequence of rows, a row a sequence of scalars, so that    *)
(* Len is Python's len() on both.  A list of arrays is a sequence of       *)
(* arrays.                                                                 *)
(***************************************************************************)
EXTENDS Integers, Sequences, FiniteSets, TLC

VARIABLES constructed, path, batch_size, model, last

vars == <<constructed, path, batch_size, model, last>>

est == <<constructed, path, batch_size, model>>

(* Bounds of the model. *)
MaxRows == 4
MaxBatch == 3
MaxArrays == 2
MaxShards == 2
MaxDim == 2

Min(a, b) == IF a <= b THEN a ELSE b

(***************************************************************************)
(* The model files: two IR files whose first output dimension differs and  *)
(* one without any <dim>.  ShapeItem is root.find(...dim[1]): <<>> is None.*)
(***************************************************************************)
ModelPaths == {"a.xml", "b.xml", "bad.xml"}

ShapeItem(model_path) ==
    IF model_path = "a.xml" THEN <<2>>
    ELSE IF model_path = "b.xml" THEN <<1>>
    ELSE <<>>

WeightPath(model_path) ==
    IF model_path = "a.xml" THEN "a.bin"
    ELSE IF model_path = "b.xml" THEN "b.bin"
    ELSE "bad.bin"

NoModel == [api |-> "none", model_path |-> "", weight_path |-> "", batch_size |-> 0]

(* Mutant of InferBatchSize: the XML is read whatever batch_size is given. *)
InferBatchSize_AlwaysXml(model_path, bs) ==
    IF ShapeItem(model_path) = <<>>
    THEN [status |-> "ValueError", batch_size |-> 0, parsed |-> TRUE]
    ELSE [status |-> "ok", batch_size |-> ShapeItem(model_path)[1], parsed |-> TRUE]

(***************************************************************************)
(* Lines 47-56 and 202-211: the batch size of the estimator.  parsed says  *)
(* whether the XML file was read.                                          *)
(***************************************************************************)
InferBatchSize(model_path, bs) ==
    IF bs # 0
    THEN [status |-> "ok", batch_size |-> bs, parsed |-> FALSE]
    ELSE IF ShapeItem(model_path) = <<>>
         THEN [status |-> "ValueError", batch_size |-> 0, parsed |-> TRUE]
         ELSE [status |-> "ok", batch_size |-> ShapeItem(model_path)[1], parsed |-> TRUE]

(* Lines 57-60: __init__ loads the engine with self.batch_size. *)
InitModel(model_path, bs, self_batch_size) ==
    [api |-> "load_openvino_ng", model_path |-> model_path,
     weight_path |-> WeightPath(model_path), batch_size |-> self_batch_size]

(* Lines 212-215: load loads the engine with its batch_size argument. *)
LoadModel(model_path, bs, self_batch_size) ==
    [api |-> "load_openvino", model_path |-> model_path,
     weight_path |-> WeightPath(model_path), batch_size |-> bs]

(***************************************************************************)
(* Arrays.  MkArray(tag, n, d) is an (n, d) array whose rows are pairwise  *)
(* distinct and distinct from the rows of an array with another tag.       *)
(***************************************************************************)
MkArray(tag, n, d) == [i \in 1..n |-> [c \in 1..d |-> 100 * tag + 10 * i + c]]

(* y[:n] for n >= 0 *)
Slice(y, n) == SubSeq(y, 1, Min(n, Len(y)))

RECURSIVE Concat(_)
(* np.concatenate(arrs, axis=0), rdd.flatMap(lambda data: data) *)
Concat(arrs) ==
    IF arrs = <<>> THEN <<>> ELSE Concat(SubSeq(arrs, 1, Len(arrs) - 1)) \o arrs[Len(arrs)]

(* math.ceil(a / b) for a >= 0, b >= 1 *)
CeilDiv(a, b) == (a + b - 1) \div b

(***************************************************************************)
(* np.array_split(arr, n): n sections, the first Len(arr) % n of them one  *)
(* row longer than the others.                                             *)
(***************************************************************************)
ArraySplit(arr, n) ==
    LET q == Len(arr) \div n
        r == Len(arr) % n
        Start(i) == (i - 1) * q + Min(i - 1, r)
        Size(i) == q + (IF i <= r THEN 1 ELSE 0)
    IN [i \in 1..n |-> SubSeq(arr, Start(i) + 1, Start(i) + Size(i))]

(***************************************************************************)
(* The inference engine.  Infer(inputs) is its output row for one sample,  *)
(* inputs holding the sample's row of each input array; PadRow is what it  *)
(* produces for a row that is not a sample.  The engine works on batches   *)
(* of the batch size it was loaded with (0: the size in the model file).   *)
(* An element of the rdd is a sequence of arrays; its output has one row   *)
(* per sample, or a full batch of rows when the engine pads.               *)
(***************************************************************************)
Infer(inputs) == [pred |-> inputs]

PadRow == [pred |-> <<>>]

EngineBatch(m) == IF m.batch_size = 0 THEN ShapeItem(m.model_path)[1] ELSE m.batch_size

DistributedPredict(chunk, m, padded) ==
    LET n == Len(chunk[1])
        outLen == IF padded /\ n < EngineBatch(m) THEN EngineBatch(m) ELSE n
    IN [i \in 1..outLen |->
            IF i <= n THEN Infer([j \in 1..Len(chunk) |-> chunk[j][i]]) ELSE PadRow]

(* Mutant of SplitNum: floor division plus one instead of the ceiling. *)
SplitNum_FloorPlusOne(data_length, bsize) == (data_length \div bsize) + 1

(* Lines 138-140: the split of a numpy array. *)
SplitNum(data_length, bsize) == CeilDiv(data_length, bsize)

SplitNdarray(data, bsize) == ArraySplit(data, SplitNum(Len(data), bsize))

(* Line 140: data_length_list = list(map(lambda arr: len(arr), arrays)) *)
LengthList(arrays) == [i \in 1..Len(arrays) |-> Len(arrays[i])]

(* Mutant of TrimResult: the engine's output is kept whole. *)
TrimResult_NoTrim(result_arr, data_length) == result_arr

(***************************************************************************)
(* Lines 165-169: trim result i to data_length_list[i] and concatenate.    *)
(* data_length_list[i] beyond the end of the list is an IndexError.        *)
(***************************************************************************)
TrimResult(result_arr, data_length) == Slice(result_arr, data_length)

CollectResult(result_arr_list, data_length_list) ==
    IF Len(result_arr_list) > Len(data_length_list)
    THEN [status |-> "IndexError", result |-> <<>>]
    ELSE [status |-> "ok",
          result |-> Concat([i \in 1..Len(result_arr_list) |->
                                TrimResult(result_arr_list[i], data_length_list[i])])]

(***************************************************************************)
(* Lines 143-162: the split of a list of numpy arrays.  Chunk idx holds    *)
(* part idx of every array.  data_length_list is assigned in the inner     *)
(* loop from x_part, so after the loops it is the list of len(row) for the *)
(* rows of the last part of the last array.                                *)
(***************************************************************************)
SameLength(flattened) == \A j \in 1..Len(flattened) : Len(flattened[j]) = Len(flattened[1])

SplitList(flattened, bsize) ==
    LET split_num == SplitNum(Len(flattened[1]), bsize)
    IN [idx \in 1..split_num |->
           [j \in 1..Len(flattened) |-> ArraySplit(flattened[j], split_num)[idx]]]

ListLengthList(flattened, bsize) ==
    LET split_num == SplitNum(Len(flattened[1]), bsize)
        x_part == ArraySplit(flattened[Len(flattened)], split_num)[split_num]
    IN LengthList(x_part)

(***************************************************************************)
(* Shards.  A shard is {'x': feature}; kind is the type of the feature:    *)
(* "ndarray", "list" (of ndarrays) or "other".  Len(shard.x) is            *)
(* len(shard["x"]): the rows of an ndarray, the elements of a list.        *)
(***************************************************************************)
NdarrayShard(n) == [kind |-> "ndarray", x |-> MkArray(1, n, 1)]

ListShard(k, n) == [kind |-> "list", x |-> [j \in 1..k |-> MkArray(j, n, 1)]]

OtherShard == [kind |-> "other", x |-> <<>>]

(* Mutant of PredictTransform: a full batch is rejected (< for <=). *)
PredictTransform_Strict(dict_data, bsize) ==
    IF dict_data.kind = "ndarray"
    THEN IF Len(dict_data.x) < bsize THEN "ok" ELSE "AssertionError"
    ELSE IF dict_data.kind = "list"
         THEN IF \A j \in 1..Len(dict_data.x) : Len(dict_data.x[j]) < bsize
              THEN "ok" ELSE "AssertionError"
         ELSE "ValueError"

(* Lines 87-106: predict_transform, by the exception it raises *)
PredictTransform(dict_data, bsize) ==
    IF dict_data.kind = "ndarray"
    THEN IF Len(dict_data.x) <= bsize THEN "ok" ELSE "AssertionError"
    ELSE IF dict_data.kind = "list"
         THEN IF \A j \in 1..Len(dict_data.x) : Len(dict_data.x[j]) <= bsize
              THEN "ok" ELSE "AssertionError"
         ELSE "ValueError"

(* transform_shard over all shards: the first shard that raises fails the job *)
TransformShards(shards, bsize) ==
    IF \A s \in 1..Len(shards) : PredictTransform(shards[s], bsize) = "ok"
    THEN "ok"
    ELSE LET bad == CHOOSE s \in 1..Len(shards) :
                       /\ PredictTransform(shards[s], bsize) # "ok"
                       /\ \A t \in 1..(s - 1) : PredictTransform(shards[t], bsize) = "ok"
         IN PredictTransform(shards[bad], bsize)

(* The rdd element the engine sees for a shard: the feature(s) *)
FeatureChunk(shard) == IF shard.kind = "ndarray" THEN <<shard.x>> ELSE shard.x

(* Mutant of UpdateShard: the engine's output is stored whole. *)
UpdateShard_NoTrim(shard, y) ==
    [kind |-> shard.kind, x |-> shard.x, prediction |-> y]

(* Lines 130-134: update_shard *)
UpdateShard(shard, y) ==
    [kind |-> shard.kind, x |-> shard.x, prediction |-> Slice(y, Len(shard.x))]

(* Lines 120-123: delete_useless_result *)
DeleteUselessResult(shard, y) == Slice(y, Len(shard.x))

(***************************************************************************)
(* dataframe_to_xshards: one shard per partition; the feature is an        *)
(* ndarray for one feature column and a list of ndarrays, one per column,  *)
(* for several.  parts[p] is the number of rows of partition p.            *)
(***************************************************************************)
DfColumn(col, p, n) == [i \in 1..n |-> <<1000 * col + 10 * p + i>>]

DataframeToXshards(parts, feature_cols) ==
    [p \in 1..Len(parts) |->
        IF feature_cols = 1
        THEN [kind |-> "ndarray", x |-> DfColumn(1, p, parts[p])]
        ELSE [kind |-> "list", x |-> [c \in 1..feature_cols |-> DfColumn(c, p, parts[p])]]]

(* The shards predict is tried on *)
Shards ==
    {NdarrayShard(n) : n \in 1..MaxRows}
        \cup {ListShard(k, n) : k \in 1..MaxArrays, n \in 1..MaxRows}
        \cup {OtherShard}

UnsupportedMethods ==
    {"fit", "evaluate", "get_model", "save", "set_tensorboard", "clear_gradient_clipping",
     "set_constant_gradient_clipping", "set_l2_norm_gradient_clipping",
     "get_train_summary", "get_validation_summary", "load_orca_checkpoint"}

Init ==
    /\ constructed = FALSE
    /\ path = ""
    /\ batch_size = 0
    /\ model = NoModel
    /\ last = [op |-> "none"]

Idle == last.op = "none"

(* Estimator.from_openvino / OpenvinoEstimator.__init__ *)
Construct(model_path, bs) ==
    LET r == InferBatchSize(model_path, bs) IN
    /\ Idle
    /\ IF r.status = "ok"
       THEN /\ constructed' = TRUE
            /\ path' = model_path
            /\ batch_size' = r.batch_size
            /\ model' = InitModel(model_path, bs, r.batch_size)
       ELSE UNCHANGED est
    /\ last' = [op |-> "__init__", status |-> r.status, model_path |-> model_path,
                bs |-> bs, parsed |-> r.parsed]

(* OpenvinoEstimator.load *)
Load(model_path, bs) ==
    LET r == InferBatchSize(model_path, bs) IN
    /\ Idle
    /\ constructed
    /\ path' = model_path
    /\ UNCHANGED constructed
    /\ IF r.status = "ok"
       THEN /\ batch_size' = r.batch_size
            /\ model' = LoadModel(model_path, bs, r.batch_size)
       ELSE UNCHANGED <<batch_size, model>>
    /\ last' = [op |-> "load", status |-> r.status, model_path |-> model_path,
                bs |-> bs, parsed |-> r.parsed]

(* predict, data a numpy array: lines 137-141 and 164-169 *)
PredictNdarray(data, padded) ==
    LET arrays == SplitNdarray(data, batch_size)
        data_length_list == LengthList(arrays)
        result_arr_list == [i \in 1..Len(arrays) |->
                               DistributedPredict(<<arrays[i]>>, model, padded)]
        r == CollectResult(result_arr_list, data_length_list)
    IN /\ Idle
       /\ constructed
       /\ last' = [op |-> "predict_ndarray", status |-> r.status, data |-> data,
                   padded |-> padded, B |-> batch_size, arrays |-> arrays,
                   engine |-> result_arr_list, result |-> r.result]
       /\ UNCHANGED est

(* predict, data a list of numpy arrays: lines 142-169 *)
PredictList(data, padded) ==
    LET chunks == SplitList(data, batch_size)
        data_length_list == ListLengthList(data, batch_size)
        result_arr_list == [i \in 1..Len(chunks) |->
                               DistributedPredict(chunks[i], model, padded)]
        r == IF SameLength(data)
             THEN CollectResult(result_arr_list, data_length_list)
             ELSE [status |-> "AssertionError", result |-> <<>>]
    IN /\ Idle
       /\ constructed
       /\ last' = [op |-> "predict_list", status |-> r.status, data |-> data,
                   padded |-> padded, B |-> batch_size, result |-> r.result]
       /\ UNCHANGED est

(* predict, data a SparkXShards: lines 126-135 *)
PredictXShards(shards, padded) ==
    LET status == TransformShards(shards, batch_size)
        result == [s \in 1..Len(shards) |->
                      UpdateShard(shards[s],
                                  DistributedPredict(FeatureChunk(shards[s]), model, padded))]
    IN /\ Idle
       /\ constructed
       /\ last' = [op |-> "predict_xshards", status |-> status, data |-> shards,
                   padded |-> padded, B |-> batch_size,
                   result |-> IF status = "ok" THEN result ELSE <<>>]
       /\ UNCHANGED est

(* predict, data a Spark DataFrame: lines 110-125 *)
PredictDataFrame(parts, feature_cols, padded) ==
    LET xshards == DataframeToXshards(parts, feature_cols)
        status == TransformShards(xshards, batch_size)
        result_rdd == [p \in 1..Len(xshards) |->
                          DeleteUselessResult(xshards[p],
                              DistributedPredict(FeatureChunk(xshards[p]), model, padded))]
    IN /\ Idle
       /\ constructed
       /\ last' = [op |-> "predict_df", status |-> status, parts |-> parts,
                   feature_cols |-> feature_cols, xshards |-> xshards,
                   padded |-> padded, B |-> batch_size,
                   result |-> IF status = "ok" THEN Concat(result_rdd) ELSE <<>>]
       /\ UNCHANGED est

(* predict, data of any other type: lines 170-172 *)
PredictOther ==
    /\ Idle
    /\ constructed
    /\ last' = [op |-> "predict_other", status |-> "ValueError"]
    /\ UNCHANGED est

(* Mutant of Unsupported: the method returns None instead of raising. *)
Unsupported_Returns(method) ==
    /\ Idle
    /\ constructed
    /\ last' = [op |-> method, status |-> "ok"]
    /\ UNCHANGED est

(* fit, evaluate, get_model, save, set_tensorboard, ...: raise NotImplementedError *)
Unsupported(method) ==
    /\ Idle
    /\ constructed
    /\ last' = [op |-> method, status |-> "NotImplementedError"]
    /\ UNCHANGED est

(* The caller has taken the outcome of the call; the next call may start. *)
Return ==
    /\ ~Idle
    /\ last' = [op |-> "none"]
    /\ UNCHANGED est

Next ==
    \/ Idle /\ \E p \in ModelPaths, bs \in 0..MaxBatch : Construct(p, bs)
    \/ Idle /\ \E p \in ModelPaths, bs \in 0..MaxBatch : Load(p, bs)
    \/ Idle /\ \E n \in 1..MaxRows, d \in 1..MaxDim, padded \in BOOLEAN :
          PredictNdarray(MkArray(1, n, d), padded)
    \/ Idle /\ \E k \in 1..MaxArrays, padded \in BOOLEAN :
          \E lens \in [1..k -> 1..MaxRows], dims \in [1..k -> 1..MaxDim] :
              PredictList([j \in 1..k |-> MkArray(j, lens[j], dims[j])], padded)
    \/ Idle /\ \E m \in 1..MaxShards, padded \in BOOLEAN :
          \E shards \in [1..m -> Shards] : PredictXShards(shards, padded)
    \/ Idle /\ \E m \in 1..MaxShards, k \in 1..MaxArrays, padded \in BOOLEAN :
          \E parts \in [1..m -> 1..MaxRows] : PredictDataFrame(parts, k, padded)
    \/ Idle /\ PredictOther
    \/ Idle /\ \E method \in UnsupportedMethods : Unsupported(method)
    \/ Return

Spec == Init /\ [][Next]_vars

(***************************************************************************)
(* Properties                                                              *)
(***************************************************************************)

(* The engine's output for sample i of a sequence of input arrays *)
Expected(arrays, i) == Infer([j \in 1..Len(arrays) |-> arrays[j][i]])

(* C1: predict on a numpy array of N rows returns exactly N rows, row i    *)
(* being the engine's output for input row i: no padding row, no row       *)
(* dropped or reordered.                                                   *)
C1_NdarrayResult ==
    last.op = "predict_ndarray" =>
        /\ last.status = "ok"
        /\ Len(last.result) = Len(last.data)
        /\ \A i \in 1..Len(last.data) : last.result[i] = Expected(<<last.data>>, i)

(* C1 witness: several chunks, and the engine padded one of them *)
C1_Witness ==
    /\ last.op = "predict_ndarray"
    /\ Len(last.arrays) >= 2
    /\ \E i \in 1..Len(last.arrays) : Len(last.engine[i]) > Len(last.arrays[i])

(* C2: for XShards whose shards are {'x': ndarray} with at most B rows,    *)
(* the result has the same shards in the same order, shard k keeping its   *)
(* 'x' and gaining a 'prediction' with as many rows as its 'x'.            *)
C2_XShardsResult ==
    (/\ last.op = "predict_xshards"
     /\ \A k \in 1..Len(last.data) :
            last.data[k].kind = "ndarray" /\ Len(last.data[k].x) <= last.B)
    => /\ last.status = "ok"
       /\ Len(last.result) = Len(last.data)
       /\ \A k \in 1..Len(last.data) :
              /\ last.result[k].x = last.data[k].x
              /\ Len(last.result[k].prediction) = Len(last.data[k].x)

(* C2 witness: two ndarray shards, one shorter than the batch the engine returned *)
C2_Witness ==
    /\ last.op = "predict_xshards"
    /\ last.status = "ok"
    /\ last.padded
    /\ Len(last.data) = 2
    /\ \A k \in 1..2 : last.data[k].kind = "ndarray"
    /\ Len(last.data[1].x) = last.B
    /\ Len(last.data[2].x) < last.B

(* The shards of the last predict on sharded input *)
LastShards == IF last.op = "predict_df" THEN last.xshards ELSE last.data

(* Every feature array of every shard has at most b rows *)
WithinBatch(shards, b) ==
    \A k \in 1..Len(shards) :
        \A j \in 1..Len(FeatureChunk(shards[k])) : Len(FeatureChunk(shards[k])[j]) <= b

(* C3: sharded input (XShards or the shards of a DataFrame) is accepted if *)
(* and only if every feature array of every shard has at most B rows;      *)
(* otherwise predict fails and returns no result.                          *)
C3_ShardWithinBatch ==
    (/\ last.op \in {"predict_xshards", "predict_df"}
     /\ \A k \in 1..Len(LastShards) : LastShards[k].kind \in {"ndarray", "list"})
    => /\ (last.status = "ok") <=> WithinBatch(LastShards, last.B)
       /\ last.status # "ok" => last.result = <<>>

(* C3 witness: a shard with exactly B rows is accepted *)
C3_Witness ==
    /\ last.op = "predict_xshards"
    /\ last.status = "ok"
    /\ \E k \in 1..Len(last.data) :
           last.data[k].kind = "ndarray" /\ Len(last.data[k].x) = last.B

RECURSIVE SumSeq(_)
SumSeq(q) == IF q = <<>> THEN 0 ELSE SumSeq(SubSeq(q, 1, Len(q) - 1)) + q[Len(q)]

C5_ListResult ==
    (last.op = "predict_list" /\ SameLength(last.data))
    => /\ last.status = "ok"
       /\ Len(last.result) = Len(last.data[1])
       /\ \A i \in 1..Len(last.data[1]) : last.result[i] = Expected(last.data, i)

(* C6: every unsupported method raises NotImplementedError and leaves the  *)
(* estimator's path, batch_size and model unchanged.                       *)
C6_UnsupportedRaises ==
    [][(last.op = "none" /\ last'.op \in UnsupportedMethods)
        => (last'.status = "NotImplementedError" /\ est' = est)]_vars

(* C6 witness: an unsupported method was called on a constructed estimator *)
C6_Witness == constructed /\ last.op = "save" /\ last.status = "NotImplementedError"

(* C7: construction with a non-zero batch_size takes it without reading    *)
(* the model file; with 0 it takes the first dimension of the XML; with 0  *)
(* and no dimension it raises ValueError and loads no model.               *)
C7_ConstructBatchSize ==
    [][(last.op = "none" /\ last'.op = "__init__")
        => /\ last'.bs # 0 =>
                 (last'.status = "ok" /\ batch_size' = last'.bs /\ ~last'.parsed)
           /\ (last'.bs = 0 /\ ShapeItem(last'.model_path) # <<>>) =>
                 (last'.status = "ok" /\ batch_size' = ShapeItem(last'.model_path)[1])
           /\ (last'.bs = 0 /\ ShapeItem(last'.model_path) = <<>>) =>
                 (last'.status = "ValueError" /\ model' = model)]_vars

(* C7 witness: a construction that inferred the batch size from the XML *)
C7_Witness ==
    /\ last.op = "__init__"
    /\ last.bs = 0
    /\ last.status = "ok"
    /\ batch_size = ShapeItem(last.model_path)[1]

(* C8: a numpy array of N rows is split into exactly ceil(N/B) chunks,     *)
(* each non-empty and of at most B rows, sizes differing by at most one,   *)
(* whose concatenation in order is the input.                              *)
C8_SplitChunks ==
    last.op = "predict_ndarray" =>
        LET a == last.arrays
            N == Len(last.data)
        IN /\ Len(a) * last.B >= N
           /\ (Len(a) - 1) * last.B < N
           /\ \A i \in 1..Len(a) : Len(a[i]) >= 1 /\ Len(a[i]) <= last.B
           /\ \A i, j \in 1..Len(a) : Len(a[i]) - Len(a[j]) <= 1
           /\ SumSeq([i \in 1..Len(a) |-> Len(a[i])]) = N
           /\ Concat(a) = last.data

(* C8 witness: a split into chunks of different sizes *)
C8_Witness ==
    /\ last.op = "predict_ndarray"
    /\ Len(last.arrays) >= 2
    /\ \E i, j \in 1..Len(last.arrays) : Len(last.arrays[i]) # Len(last.arrays[j])

(* C9: for a shard whose 'x' is a list of k arrays of n rows each, the     *)
(* 'prediction' of the output shard has n rows, whatever k is.             *)
C9_ListShardPrediction ==
    (last.op = "predict_xshards" /\ last.status = "ok")
    => \A s \in 1..Len(last.data) :
           last.data[s].kind = "list" =>
               Len(last.result[s].prediction) = Len(last.data[s].x[1])

(* C10: after construction and load calls, the batch size the engine was   *)
(* last loaded with equals the estimator's batch_size field.               *)
C10_EngineBatchIsField == constructed => model.batch_size = batch_size

====
